---- MODULE Spec2Model ----
(***************************************************************************)
(* Model of the gameplay core of bevy_game_template:                       *)
(*   - ground.rs : asynchronous path-finding tasks (submit / worker / poll)*)
(*   - enemy.rs  : waypoint movement and the two destruction rules         *)
(*   - tower.rs  : proximity target selection of the turret                *)
(*                                                                         *)
(* Time is in units of 0.25 s (half the turret timer's period).  The       *)
(* translations of the entities are f32 numbers, held by mantissa and      *)
(* exponent, and move_targets computes with them as the f32 operations of  *)
(* the code do, rounding included.  Waypoints, starting points and ranges  *)
(* are whole numbers of half world units (the spawn point has z = 2.5      *)
(* world units).  tower_shooting computes the distances of the targets as  *)
(* Vec3::distance does, in f32.  The properties also read a translation    *)
(* on a grid of 1/Scale half unit.                                         *)
(***************************************************************************)
EXTENDS Integers, Sequences, FiniteSets, TLC

\* ------------------------------------------------------------------ bounds
\* number of 'A' key presses (submitted queries) explored
MaxTasks == 2
\* entity identifiers available to Target entities
MaxTargets == 2
\* turrets built by clicks on the base
MaxTowers == 1
\* projectile impacts on one entity in one tick
MaxHits == 1
\* projectiles in flight that are tracked
MaxBullets == 2
\* total damage the projectiles deal to one entity
MaxDamage == 4
\* a tick moves an entity by BigStep half units, a long tick by twice that
BigStep == 4
\* longest step of a tick when one leg is followed in isolation
MaxLegStep == 3
\* longest leg followed in isolation
MaxLegDist == 4
\* largest turret range, in half units, when selection is examined alone
MaxRange == 3
\* largest player health when hurt_player is examined near zero
MaxPlayerHealth == 2
\* largest distance to the last waypoint, per axis, of an arriving entity
MaxArrivalDist == 2
\* number of 'B' key presses (blocking queries) explored
MaxBlocking == 1
\* number of times the navigation mesh is rebuilt under the write lock
MaxRebuilds == 1

\* --------------------------------------------------------- program constants
\* spawn_enemy: for i in 1..=1
NumEnemies == 1
\* Health { value: 3 }
InitHealth == 3
\* Player { health: 10 }
InitPlayerHealth == 10
\* Target { speed: 0.25 }: SpeedNum / SpeedDen half units per 0.25 s
SpeedNum == 1
SpeedDen == 8
\* Timer::from_seconds(0.5, Repeating), in units of 0.25 s
TimerDuration == 2
\* grid on which the properties read a translation: the nearest multiple of
\* 1/Scale half unit
Scale == 1000
\* Tower { range: 100.0 }, in half units
TurretRange == 200

VARIABLES
    \* ground.rs ---------------------------------------------------------
    tasks,          \* AsyncPathfindingTasks.tasks : sequence of task records
    nextId,         \* number of tasks submitted so far (identity of a task)
    draws,          \* task id -> number of DrawPath entities spawned for it
    polled,         \* tasks the pass of the poll in progress has retained
    drawCmds,       \* ids of the tasks whose DrawPath that pass has queued
    doneAtCall,     \* ids of the tasks that pass has yet to reach and that
                    \* had completed when it began
    errorLog,       \* number of error!(..) lines written by the two queries
    writer,         \* the mesh generation holds the write lock of the nav mesh
    poisoned,       \* a writer panicked while it held the lock
    rebuilds,       \* write-lock acquisitions so far
    blocking,       \* number of blocking queries run so far
    redDraws,       \* red DrawPath entities spawned by the blocking query
    blockingResult, \* how the last blocking query ended
    panicked,       \* a system panicked: the app has stopped
    \* enemy.rs / player.rs ----------------------------------------------
    alive,          \* entities with Target + Health in the world
    dead,           \* entities whose despawn has been applied
    path_index,     \* Target.path_index
    pos,            \* Transform.translation of the entity: the f32 .x and .z
    gpos,           \* GlobalTransform translation of the entity, likewise
    health,         \* Health.value
    player_health,  \* Player.health
    despawnCmds,    \* queued despawn commands: entity -> systems that asked
    deathEvents,    \* entity -> TargetDeathEvents sent for it
    hurtCount,      \* entity -> player-health decrements it caused
    gameOver,       \* number of "GAME OVER" signals given by hurt_player
    \* tower.rs -----------------------------------------------------------
    towers,         \* sequence of Tower records
    shot,           \* tower -> target its bullet was aimed at in this tick
    spawnCmds,      \* tower -> Bullet spawn commands it queued in this tick
    bullets,        \* Bullet entities in the world (at most MaxBullets tracked)
    \* schedule ----------------------------------------------------------
    ran,            \* Update systems that have run in the current tick
    dt,             \* Time::delta of the current tick
    \* one waypoint leg followed by move_targets alone --------------------
    legIdx,         \* path_index of the leg (-1: no leg is being followed)
    legStart,       \* point at which the leg started, in half units
    travelled       \* sum of speed * dt over the ticks of the leg

lockVars  == <<writer, poisoned, rebuilds>>
syncVars  == <<blocking, redDraws, blockingResult>>
pollVars  == <<polled, drawCmds, doneAtCall>>
asyncVars == <<tasks, nextId, draws, errorLog, lockVars, syncVars, pollVars>>
enemyVars == <<alive, dead, path_index, pos, gpos, health, player_health,
               despawnCmds, deathEvents, hurtCount, gameOver>>
towerVars == <<towers, shot, spawnCmds, bullets>>
tickVars  == <<ran, dt>>
legVars   == <<legIdx, legStart, travelled>>
vars == <<tasks, nextId, draws, polled, drawCmds, doneAtCall, errorLog,
          writer, poisoned, rebuilds,
          blocking, redDraws, blockingResult, panicked, alive, dead, path_index, pos, gpos,
          health, player_health, despawnCmds, deathEvents, hurtCount,
          gameOver, towers, shot, spawnCmds, bullets, ran, dt, legIdx, legStart,
          travelled>>

TaskIds == 0 .. (MaxTasks - 1)

\* =====================================================================
\*                      ground.rs : async path finding
\* =====================================================================

\* Option<Vec<Vec3>> returned by async_path_find, by shape:
\* "some" = Some(path), "none" = None (lock failure or find_path error).
PathOutcomes == {"some", "none"}

\* Task<Option<Vec<Vec3>>> as the poller sees it:
\*   "running" : the future has not completed,
\*   "ready"   : completed, output not yet taken,
\*   "taken"   : completed and its output already handed to a poll.
TaskStates == {"running", "ready", "taken"}

\* What polling a task again after it has handed out its output may do
\* (contract of Future::poll: it may panic or report Pending for ever).
PolledAgainOutcomes == {"panic", "pending"}

\* How a query ended: find_path / find_polygon_path returned Ok ("path"),
\* returned Err ("error"), or the read lock could not be taken ("poisoned");
\* "none" while the query has not ended.
QueryCauses == {"path", "error", "poisoned"}

\* ids of the tasks that hold a guard of the RwLock of the nav mesh
Readers == {tasks[i].id : i \in {j \in 1 .. Len(tasks) : tasks[j].guard = "read"}}
TaskWriters ==
    {tasks[i].id : i \in {j \in 1 .. Len(tasks) : tasks[j].guard = "write"}}

\* RwLock: read() returns once no writer holds the lock, write() once nobody
\* holds it.
ReadGranted == ~writer /\ TaskWriters = {}
WriteGranted == ~writer /\ TaskWriters = {} /\ Readers = {}

\* Mutant of QueryLockMode: the query takes the lock with write().
QueryLockModeWrite == "write"

\* the access the query paths ask of the lock: nav_mesh_lock.read()
QueryLockMode == "read"

\* poll_pathfinding_tasks_system is in the middle of its pass over the tasks
Polling == polled > 0 \/ drawCmds # {}

\* Mutant of run_async_pathfinding: the system takes the read lock itself
\* before it spawns the task.
run_async_pathfinding_locking ==
    /\ ~panicked
    /\ ~Polling
    /\ nextId < MaxTasks
    /\ ReadGranted
    /\ tasks' = Append(tasks, [id |-> nextId, st |-> "running", out |-> "none",
                               cause |-> "none", guard |-> "none"])
    /\ nextId' = nextId + 1
    /\ UNCHANGED <<draws, errorLog, lockVars, syncVars, panicked>>
    /\ UNCHANGED <<pollVars, enemyVars, towerVars, tickVars, legVars>>

\* run_async_pathfinding: on a press of 'A', clone the Arc of the lock,
\* spawn the task and push it.  The system and the poll both hold
\* ResMut<AsyncPathfindingTasks>, so it does not run during a pass.
run_async_pathfinding ==
    /\ ~panicked
    /\ ~Polling
    /\ nextId < MaxTasks
    /\ tasks' = Append(tasks, [id |-> nextId, st |-> "running", out |-> "none",
                               cause |-> "none", guard |-> "none"])
    /\ nextId' = nextId + 1
    /\ UNCHANGED <<draws, errorLog, lockVars, syncVars, panicked>>
    /\ UNCHANGED <<pollVars, enemyVars, towerVars, tickVars, legVars>>

\* async_path_find on a worker thread of the AsyncComputeTaskPool, up to the
\* lock: nav_mesh_lock.read() waits for the writer to leave; on a poisoned
\* lock the future returns None at once, without a log line.
async_read_lock(i) ==
    /\ ~panicked
    /\ i \in 1 .. Len(tasks)
    /\ tasks[i].st = "running"
    /\ tasks[i].guard = "none"
    /\ IF QueryLockMode = "read" THEN ReadGranted ELSE WriteGranted
    /\ tasks' = [tasks EXCEPT ![i] =
                   IF poisoned
                     THEN [@ EXCEPT !.st = "ready", !.out = "none",
                                    !.cause = "poisoned"]
                     ELSE [@ EXCEPT !.guard = QueryLockMode]]
    /\ UNCHANGED <<nextId, draws, errorLog, lockVars, syncVars, panicked>>
    /\ UNCHANGED <<pollVars, enemyVars, towerVars, tickVars, legVars>>

\* Mutant of AsyncOutput: an Err of find_path is handed on as its own value.
AsyncOutputKeepsError(cause) == IF cause = "path" THEN "some" ELSE cause

\* value the future of async_path_find returns for each way the query ends
AsyncOutput(cause) == IF cause = "path" THEN "some" ELSE "none"

\* async_path_find from find_path to its return: Ok gives Some(path), Err is
\* logged with error! and gives None; the guard is dropped on return.
async_path_find(i) ==
    /\ ~panicked
    /\ i \in 1 .. Len(tasks)
    /\ tasks[i].st = "running"
    /\ tasks[i].guard # "none"
    /\ \E c \in {"path", "error"} :
          /\ tasks' = [tasks EXCEPT ![i] =
                         [@ EXCEPT !.st = "ready", !.out = AsyncOutput(c),
                                   !.cause = c, !.guard = "none"]]
          /\ errorLog' = IF c = "error" THEN errorLog + 1 ELSE errorLog
    /\ UNCHANGED <<nextId, draws, lockVars, syncVars, panicked>>
    /\ UNCHANGED <<pollVars, enemyVars, towerVars, tickVars, legVars>>

\* How run_blocking_pathfinding can end once it has the lock:
\* find_polygon_path Ok and string pulling Ok, or one of the two Err.
BlockingResults == {"path", "polygon_error", "string_error"}

\* run_blocking_pathfinding: on a press of 'B' the system takes the read
\* lock on the main thread (waiting for the writer to leave), runs the query
\* and drops the guard.  A poisoned lock skips the whole body.
run_blocking_pathfinding ==
    /\ ~panicked
    /\ blocking < MaxBlocking
    /\ IF QueryLockMode = "read" THEN ReadGranted ELSE WriteGranted
    /\ blocking' = blocking + 1
    /\ IF poisoned
         THEN /\ blockingResult' = "poisoned"
              /\ UNCHANGED <<redDraws, errorLog>>
         ELSE \E r \in BlockingResults :
                /\ blockingResult' = r
                /\ redDraws' = IF r = "path" THEN redDraws + 1 ELSE redDraws
                /\ errorLog' = IF r = "path" THEN errorLog ELSE errorLog + 1
    /\ UNCHANGED <<tasks, nextId, draws, lockVars, panicked>>
    /\ UNCHANGED <<pollVars, enemyVars, towerVars, tickVars, legVars>>

\* Generation of nav-mesh tiles takes the write lock ...
mesh_write_lock ==
    /\ ~panicked
    /\ rebuilds < MaxRebuilds
    /\ WriteGranted
    /\ writer' = TRUE
    /\ rebuilds' = rebuilds + 1
    /\ UNCHANGED <<tasks, nextId, draws, errorLog, poisoned, syncVars, panicked>>
    /\ UNCHANGED <<pollVars, enemyVars, towerVars, tickVars, legVars>>

\* ... and either finishes and drops the guard ...
mesh_write_unlock ==
    /\ ~panicked
    /\ writer
    /\ writer' = FALSE
    /\ UNCHANGED <<tasks, nextId, draws, errorLog, poisoned, rebuilds,
                   syncVars, panicked>>
    /\ UNCHANGED <<pollVars, enemyVars, towerVars, tickVars, legVars>>

\* ... or panics with the guard held, which poisons the lock for good.
mesh_writer_panics ==
    /\ ~panicked
    /\ writer
    /\ writer' = FALSE
    /\ poisoned' = TRUE
    /\ UNCHANGED <<tasks, nextId, draws, errorLog, rebuilds, syncVars, panicked>>
    /\ UNCHANGED <<pollVars, enemyVars, towerVars, tickVars, legVars>>

\* Mutant of PollTask: the closure spawns the DrawPath but answers `true`
\* and leaves the output in the task.
PollTaskKeepsDrawn(t, again) ==
    IF t.st = "ready" /\ t.out = "some"
      THEN [keep |-> TRUE, draw |-> TRUE, st |-> "ready", panic |-> FALSE]
      ELSE [keep |-> TRUE, draw |-> FALSE,
            st |-> IF t.st = "ready" THEN "taken" ELSE t.st,
            panic |-> (t.st = "taken" /\ again = "panic")]

\* Mutant of PollTask: the closure reads every poll as "not finished".
PollTaskNeverDone(t, again) ==
    [keep |-> TRUE, draw |-> FALSE,
     st |-> IF t.st = "ready" THEN "taken" ELSE t.st,
     panic |-> (t.st = "taken" /\ again = "panic")]

\* Mutant of PollTask: the closure waits for the task (block_on(task)), so
\* a task that is still running is integrated by this poll too.
PollTaskBlocking(t, again) ==
    IF t.st = "running" \/ (t.st = "ready" /\ t.out = "some")
      THEN [keep |-> FALSE, draw |-> TRUE, st |-> "taken", panic |-> FALSE]
      ELSE [keep |-> TRUE, draw |-> FALSE,
            st |-> IF t.st = "ready" THEN "taken" ELSE t.st,
            panic |-> (t.st = "taken" /\ again = "panic")]

\* The closure of retain_mut for one task:
\*   future::block_on(future::poll_once(task)).unwrap_or(None)
\* is Some(path) only for a completed task with a path; a running task and a
\* task completed with None both give None, and the task is retained.
PollTask(t, again) ==
    IF t.st = "ready" /\ t.out = "some"
      THEN [keep |-> FALSE, draw |-> TRUE, st |-> "taken", panic |-> FALSE]
      ELSE [keep |-> TRUE, draw |-> FALSE,
            st |-> IF t.st = "ready" THEN "taken" ELSE t.st,
            panic |-> (t.st = "taken" /\ again = "panic")]

\* Vec::retain_mut, once the closure has answered for the task at place k:
\* a task it keeps stays, with the state the poll left it in, and a task it
\* does not keep leaves the Vec; the tasks after it are still to come.
Retained(ts, k, r) ==
    IF r.keep THEN [ts EXCEPT ![k].st = r.st]
    ELSE SubSeq(ts, 1, k - 1) \o SubSeq(ts, k + 1, Len(ts))

\* ids of the tasks that had completed when the pass in progress began, or,
\* between two passes, of those that have completed by now
CompletedAtCall ==
    IF Polling THEN doneAtCall
    ELSE {tasks[i].id : i \in {j \in 1 .. Len(tasks) : tasks[j].st # "running"}}

\* poll_pathfinding_tasks_system, once per tick: one step of the action is
\* the poll of one task by the closure of retain_mut, the next task of the
\* pass.  The threads of the pool and the writer of the mesh run between two
\* polls.  The DrawPath spawns are commands, applied when the pass is over;
\* a panic inside the closure stops the app before they are applied, and
\* leaves the task it polled and those after it in the Vec.
poll_pathfinding_tasks_system ==
    /\ ~panicked
    /\ UNCHANGED <<enemyVars, towerVars, tickVars, legVars>>
    /\ UNCHANGED <<nextId, errorLog, lockVars, syncVars>>
    /\ IF tasks = <<>>
         THEN UNCHANGED <<tasks, draws, panicked, pollVars>>
         ELSE \E again \in PolledAgainOutcomes :
                LET t == tasks[polled + 1]
                    r == PollTask(t, again)
                    ts == Retained(tasks, polled + 1, r)
                    n == IF r.keep THEN polled + 1 ELSE polled
                    cmds == IF r.draw THEN drawCmds \cup {t.id} ELSE drawCmds
                IN IF r.panic
                     THEN /\ panicked' = TRUE
                          /\ polled' = 0
                          /\ drawCmds' = {}
                          /\ doneAtCall' = {}
                          /\ UNCHANGED <<tasks, draws>>
                     ELSE /\ tasks' = ts
                          /\ UNCHANGED panicked
                          /\ IF n = Len(ts)
                               THEN /\ draws' = [d \in TaskIds |->
                                                   IF d \in cmds THEN draws[d] + 1
                                                   ELSE draws[d]]
                                    /\ polled' = 0
                                    /\ drawCmds' = {}
                                    /\ doneAtCall' = {}
                               ELSE /\ polled' = n
                                    /\ drawCmds' = cmds
                                    /\ doneAtCall' =
                                          CompletedAtCall
                                            \cap {ts[i].id : i \in (n + 1) .. Len(ts)}
                                    /\ UNCHANGED draws

\* =====================================================================
\*                 enemy.rs : movement and destruction
\* =====================================================================

\* TargetPath.waypoints (6,2), (6,6), (9,9), in half units
waypoints == << <<12, 4>>, <<12, 12>>, <<18, 18>> >>

Ents == 1 .. MaxTargets

\* spawn_enemy: translation (-2 i, 0, 2.5) for i in 1..=NumEnemies, as (x, z)
\* in half units
SpawnPos(i) == <<-4 * i, 5>>

\* speed * dt on the grid, for dt in units of 0.25 s: 0.25 units/s is
\* SpeedNum / SpeedDen half unit per 0.25 s
StepOf(d) == (d * SpeedNum * Scale) \div SpeedDen

\* ticks lengths explored, in units of 0.25 s: the frames' Time::delta
DtSet == {0, SpeedDen * BigStep, 2 * SpeedDen * BigStep}

\* tick lengths that are not all whole numbers of periods of the turret's
\* timer: a frame may last 0.25 s longer
UnevenDtSet == {0, SpeedDen * BigStep + 1}

Min(a, b) == IF a <= b THEN a ELSE b
LenSq(v) == v[1] * v[1] + v[2] * v[2]

\* Newton's iteration for the square root, downwards from r
RECURSIVE SqrtFrom(_, _)
SqrtFrom(n, r) ==
    LET s == (r + n \div r) \div 2 IN IF s >= r THEN r ELSE SqrtFrom(n, s)

\* the square root of n, rounded to the nearest whole number
ISqrt(n) ==
    IF n = 0 THEN 0
    ELSE LET r == SqrtFrom(n, n) IN IF n - r * r > r THEN r + 1 ELSE r

\* a / b rounded to the nearest whole number (b > 0)
RoundDiv(a, b) ==
    IF a >= 0 THEN (2 * a + b) \div (2 * b) ELSE -((2 * (-a) + b) \div (2 * b))

\* a point given in half units, on the grid
Scaled(p) == <<p[1] * Scale, p[2] * Scale>>

\* ---------------------------------------------------------------- f32
\* An f32 is the record [m, x] that stands for m * 2^x, with
\* Two23 <= |m| < Two24, or m = 0 and x = 0.  Every operation gives the
\* exact result rounded to the nearest f32, ties to the even mantissa; no
\* intermediate value needs more than 31 bits.  (The numbers of the game are
\* far from the ends of the exponent range: no overflow, no subnormals.)
Two12 == 4096
Two23 == 8388608
Two24 == 16777216

Zero == [m |-> 0, x |-> 0]

Abs(n) == IF n < 0 THEN -n ELSE n
Sgn(n) == IF n > 0 THEN 1 ELSE IF n < 0 THEN -1 ELSE 0

\* number of binary digits of n >= 0
RECURSIVE BitLen(_)
BitLen(n) == IF n = 0 THEN 0 ELSE 1 + BitLen(n \div 2)

\* the mantissa q is followed by the dropped digits r, `half` being half a
\* unit of q: round up above the half, and at the half when q is odd
RoundUp(q, r, half) == r > half \/ (r = half /\ q % 2 = 1)

\* s * q * 2^x for a rounded mantissa q, Two23 <= q <= Two24
Carry(s, q, x) ==
    IF q = Two24 THEN [m |-> s * Two23, x |-> x + 1] ELSE [m |-> s * q, x |-> x]

\* the f32 nearest to n * 2^x
Round(n, x) ==
    IF n = 0 THEN Zero
    ELSE LET k == BitLen(Abs(n)) - 24
         IN IF k <= 0 THEN [m |-> n * 2^(0 - k), x |-> x + k]
            ELSE Carry(Sgn(n),
                       IF RoundUp(Abs(n) \div 2^k, Abs(n) % 2^k, 2^(k - 1))
                         THEN Abs(n) \div 2^k + 1 ELSE Abs(n) \div 2^k,
                       x + k)

FNeg(a) == [m |-> 0 - a.m, x |-> a.x]

\* hi + lo for hi.x >= lo.x.  Up to 6 binary places apart the sum is formed
\* exactly; farther apart, hi is given 6 more digits and the digits of lo
\* below them are kept as one sticky digit.
AddOrdered(hi, lo) ==
    IF hi.x - lo.x <= 6 THEN Round(hi.m * 2^(hi.x - lo.x) + lo.m, lo.x)
    ELSE IF hi.x - lo.x >= 30 THEN hi
    ELSE LET p == 2^(hi.x - lo.x - 5)
         IN Round(64 * hi.m
                    + Sgn(lo.m) * (2 * (Abs(lo.m) \div p)
                                     + (IF Abs(lo.m) % p = 0 THEN 0 ELSE 1)),
                  hi.x - 6)

\* a + b
FAdd(a, b) ==
    IF a.m = 0 THEN b
    ELSE IF b.m = 0 THEN a
    ELSE IF a.x >= b.x THEN AddOrdered(a, b) ELSE AddOrdered(b, a)

\* a - b
FSub(a, b) == FAdd(a, FNeg(b))

\* a > b
FGt(a, b) == FSub(a, b).m > 0

\* x * y for 0 <= x, y < Two24, as [hi, lo] = hi * Two24 + lo
Mul24(x, y) ==
    LET mid == (x \div Two12) * (y % Two12) + (x % Two12) * (y \div Two12)
        low == (mid % Two12) * Two12 + (x % Two12) * (y % Two12)
    IN [hi |-> (x \div Two12) * (y \div Two12) + mid \div Two12 + low \div Two24,
        lo |-> low % Two24]

\* the product p = |a.m| * |b.m| rounded to 24 digits
MulRounded(s, p, x) ==
    IF p.hi >= Two23
      THEN Carry(s, IF RoundUp(p.hi, p.lo, Two23) THEN p.hi + 1 ELSE p.hi,
                 x + 24)
      ELSE LET q == 2 * p.hi + p.lo \div Two23
           IN Carry(s, IF RoundUp(q, p.lo % Two23, Two23 \div 2)
                         THEN q + 1 ELSE q,
                    x + 23)

\* a * b
FMul(a, b) ==
    IF a.m = 0 \/ b.m = 0 THEN Zero
    ELSE MulRounded(Sgn(a.m) * Sgn(b.m), Mul24(Abs(a.m), Abs(b.m)), a.x + b.x)

\* long division by m, 6 binary digits at a time, n times: [q, r] goes to
\* the quotient and the remainder of (q * m + r) * 64^n by m
RECURSIVE DivSteps(_, _, _, _)
DivSteps(q, r, m, n) ==
    IF n = 0 THEN [q |-> q, r |-> r]
    ELSE DivSteps(q * 64 + (r * 64) \div m, (r * 64) % m, m, n - 1)

\* 2^47 / m rounded to 24 digits, given its quotient and remainder
RecipRounded(s, d, m, x) ==
    Carry(s, IF d.q < Two24 /\ d.r > m - d.r THEN d.q + 1 ELSE d.q, x)

\* f32::recip: 1.0 / a, for a # 0
FRecip(a) ==
    RecipRounded(Sgn(a.m),
                 DivSteps(Two23 \div Abs(a.m), Two23 % Abs(a.m), Abs(a.m), 4),
                 Abs(a.m), 0 - 47 - a.x)

\* p <= q for two numbers [hi, lo]
Le2(p, q) == p.hi < q.hi \/ (p.hi = q.hi /\ p.lo <= q.lo)

\* the largest h + j, 0 <= j < 2^(b+1), whose square is at most n = [hi, lo],
\* found one binary digit at a time
RECURSIVE SqrtBits(_, _, _)
SqrtBits(h, b, n) ==
    IF b < 0 THEN h
    ELSE IF Le2(Mul24(h + 2^b, h + 2^b), n) THEN SqrtBits(h + 2^b, b - 1, n)
    ELSE SqrtBits(h, b - 1, n)

\* the root h = floor(sqrt(n)) rounded: up when n - h^2 > h
SqrtRounded(h, n, x) ==
    Carry(1,
          IF (n.hi - Mul24(h, h).hi) * Two24 + (n.lo - Mul24(h, h).lo) > h
            THEN h + 1 ELSE h,
          x)

\* m * 2^s as [hi, lo], for s = 23 or 24
Shifted(m, s) ==
    IF s = 24 THEN [hi |-> m, lo |-> 0]
    ELSE [hi |-> m \div 2, lo |-> (m % 2) * Two23]

\* f32::sqrt of a >= 0: the root of a.m * 2^s, with s = 23 or 24 making the
\* exponent a.x - s even
FSqrt(a) ==
    IF a.m = 0 THEN Zero
    ELSE LET s == IF a.x % 2 = 0 THEN 24 ELSE 23
         IN SqrtRounded(SqrtBits(0, 23, Shifted(a.m, s)), Shifted(a.m, s),
                        (a.x - s) \div 2)

\* k half units as f32
Half(k) == Round(k, 0 - 1)

\* time.delta_seconds() for a delta of d units of 0.25 s
Seconds(d) == Round(d, 0 - 2)

\* Target { speed: 0.25 }
speed == Round(1, 0 - 2)

\* delta = target.speed * time.delta_seconds()
Delta(d) == FMul(speed, Seconds(d))

\* n / 2^k rounded to the nearest whole number, for 0 <= n < 2^31
Shrunk(n, k) ==
    IF k <= 0 THEN n * 2^(0 - k)
    ELSE IF k = 1 THEN (n + 1) \div 2
    ELSE IF k >= 32 THEN 0
    ELSE (n \div 2 + 2^(k - 2)) \div 2^(k - 1)

\* the grid point nearest to the f32 a: a * 2 * Scale, rounded, where
\* 2 * Scale = 2^4 * (Scale / 8)
Grid(a) == Sgn(a.m) * Shrunk(Abs(a.m) * (Scale \div 8), 0 - (a.x + 4))

\* the translation of an entity put at the point p of half units
Place(p) == [x |-> Half(p[1]), z |-> Half(p[2])]

\* xz() of a translation, on the grid
At(tr) == <<Grid(tr.x), Grid(tr.z)>>

\* path.waypoints[idx] as a Vec2
Waypoint(idx) == Place(waypoints[idx + 1])

\* Vec2::length of (dx, dz): sqrt(dx * dx + dz * dz)
Length(dx, dz) == FSqrt(FAdd(FMul(dx, dx), FMul(dz, dz)))

\* delta_target.length() for delta_target = target - translation.xz()
Remaining(tr, target) ==
    Length(FSub(target.x, tr.x), FSub(target.z, tr.z))

\* translation += delta_target.normalize() * delta, where normalize() is
\* delta_target * delta_target.length().recip()
Moved(tr, target, recip, delta) ==
    [x |-> FAdd(tr.x, FMul(FMul(FSub(target.x, tr.x), recip), delta)),
     z |-> FAdd(tr.z, FMul(FMul(FSub(target.z, tr.z), recip), delta))]

\* Mutant of Advance: a step that overshoots the waypoint is spent on the
\* next waypoint too, so the cursor advances by two.
AdvanceSkipping(tr, idx, delta) ==
    IF FGt(Remaining(tr, Waypoint(idx)), delta)
      THEN [pos |-> Moved(tr, Waypoint(idx),
                          FRecip(Remaining(tr, Waypoint(idx))), delta),
            path_index |-> idx]
      ELSE [pos |-> tr,
            path_index |-> IF FGt(delta, Remaining(tr, Waypoint(idx)))
                             THEN idx + 2 ELSE idx + 1]

\* Mutant of Advance: on arrival the entity is put on the waypoint.
AdvanceSnapping(tr, idx, delta) ==
    IF FGt(Remaining(tr, Waypoint(idx)), delta)
      THEN [pos |-> Moved(tr, Waypoint(idx),
                          FRecip(Remaining(tr, Waypoint(idx))), delta),
            path_index |-> idx]
      ELSE [pos |-> Waypoint(idx), path_index |-> idx + 1]

\* Mutant of Advance: the entity still moves when the remaining distance
\* equals the step.
AdvanceInclusive(tr, idx, delta) ==
    IF ~FGt(delta, Remaining(tr, Waypoint(idx)))
         /\ Remaining(tr, Waypoint(idx)).m # 0
      THEN [pos |-> Moved(tr, Waypoint(idx),
                          FRecip(Remaining(tr, Waypoint(idx))), delta),
            path_index |-> idx]
      ELSE [pos |-> tr, path_index |-> idx + 1]

\* Body of the loop of move_targets for one entity: Target.path_index = idx,
\* Transform.translation = tr, delta = speed * delta_seconds.
\*   if delta_target.length() > delta {
\*       translation += delta_target.normalize() * delta
\*   } else { path_index += 1 }
Advance(tr, idx, delta) ==
    IF FGt(Remaining(tr, Waypoint(idx)), delta)
      THEN [pos |-> Moved(tr, Waypoint(idx),
                          FRecip(Remaining(tr, Waypoint(idx))), delta),
            path_index |-> idx]
      ELSE [pos |-> tr, path_index |-> idx + 1]

\* all orders in which a query may iterate the entities of `es`
Orders(es) ==
    {o \in [1 .. Cardinality(es) -> es] :
        \A i, j \in 1 .. Cardinality(es) : i # j => o[i] # o[j]}

Systems == {"move_targets", "hurt_player", "target_death",
            "bullet_collision", "tower_shooting"}

\* Mutant of MayRun: hurt_player is not ordered after move_targets.
MayRunUnordered(sys) ==
    /\ ~panicked
    /\ sys \notin ran

\* Update schedule of EnemyPlugin / TowerPlugin: every system runs once per
\* tick, hurt_player.after(move_targets) is the only ordering constraint.
MayRun(sys) ==
    /\ ~panicked
    /\ sys \notin ran
    /\ (sys = "hurt_player" => "move_targets" \in ran)

\* move_targets.  Indexing waypoints past the end panics; the entities the
\* query yielded before that one have been moved.
move_targets ==
    /\ MayRun("move_targets")
    /\ ran' = ran \cup {"move_targets"}
    /\ \E order \in Orders(alive) :
         LET n == Cardinality(alive)
             stop == CHOOSE i \in 1 .. (n + 1) :
                       /\ i = n + 1 \/ path_index[order[i]] >= Len(waypoints)
                       /\ \A j \in 1 .. (i - 1) :
                             path_index[order[j]] < Len(waypoints)
             moved == {order[i] : i \in 1 .. (stop - 1)}
         IN /\ panicked' = (stop <= n)
            /\ path_index' = [e \in Ents |->
                  IF e \in moved
                    THEN Advance(pos[e], path_index[e], Delta(dt)).path_index
                    ELSE path_index[e]]
            /\ pos' = [e \in Ents |->
                  IF e \in moved
                    THEN Advance(pos[e], path_index[e], Delta(dt)).pos
                    ELSE pos[e]]
    /\ UNCHANGED <<alive, dead, gpos, health, player_health, despawnCmds,
                   deathEvents, hurtCount, gameOver, dt>>
    /\ UNCHANGED <<asyncVars, towerVars, legVars>>

\* Mutant of AtPathEnd: the comparison is strict.
AtPathEndStrict(idx) == idx > Len(waypoints)

\* condition of hurt_player
AtPathEnd(idx) == idx >= Len(waypoints)

\* Mutant of Hurt: the deduction is not guarded by player.health > 0.
HurtUnguarded(h, n) == h - n

\* Player.health after n entities at the path end have each gone through
\*   if player.health > 0 { player.health -= 1 }
RECURSIVE Hurt(_, _)
Hurt(h, n) == IF n = 0 THEN h ELSE Hurt(IF h > 0 THEN h - 1 ELSE h, n - 1)

\* Number of "GAME OVER" signals while n entities at the path end are
\* handled: one for each of them that leaves player.health == 0.
RECURSIVE GameOvers(_, _)
GameOvers(h, n) ==
    IF n = 0 THEN 0
    ELSE LET h1 == IF h > 0 THEN h - 1 ELSE h
         IN (IF h1 = 0 THEN 1 ELSE 0) + GameOvers(h1, n - 1)

\* hurt_player
hurt_player ==
    /\ MayRun("hurt_player")
    /\ ran' = ran \cup {"hurt_player"}
    /\ LET hit == {e \in alive : AtPathEnd(path_index[e])}
       IN /\ despawnCmds' = [e \in Ents |->
                IF e \in hit THEN despawnCmds[e] \cup {"hurt_player"}
                ELSE despawnCmds[e]]
          /\ player_health' = Hurt(player_health, Cardinality(hit))
          /\ gameOver' = gameOver + GameOvers(player_health, Cardinality(hit))
          /\ hurtCount' = [e \in Ents |->
                IF e \in hit THEN hurtCount[e] + 1 ELSE hurtCount[e]]
    /\ UNCHANGED <<alive, dead, path_index, pos, gpos, health, deathEvents,
                   dt, panicked>>
    /\ UNCHANGED <<asyncVars, towerVars, legVars>>

\* Mutant of IsDead: only a health of exactly zero counts.
IsDeadExactlyZero(h) == h = 0

\* condition of target_death
IsDead(h) == h <= 0

\* target_death
target_death ==
    /\ MayRun("target_death")
    /\ ran' = ran \cup {"target_death"}
    /\ LET gone == {e \in alive : IsDead(health[e])}
       IN /\ despawnCmds' = [e \in Ents |->
                IF e \in gone THEN despawnCmds[e] \cup {"target_death"}
                ELSE despawnCmds[e]]
          /\ deathEvents' = [e \in Ents |->
                IF e \in gone THEN deathEvents[e] + 1 ELSE deathEvents[e]]
    /\ UNCHANGED <<alive, dead, path_index, pos, gpos, health, player_health,
                   hurtCount, gameOver, dt, panicked>>
    /\ UNCHANGED <<asyncVars, towerVars, legVars>>

\* sum of f over the set es
RECURSIVE SumOver(_, _)
SumOver(f, es) ==
    IF es = {} THEN 0
    ELSE LET e == CHOOSE x \in es : TRUE IN f[e] + SumOver(f, es \ {e})

\* Projectile impacts of the tick (bullet module): every impact takes one
\* bullet out of the world and 1 health from the entity it hits; bullets
\* whose lifetime has run out disappear too.
bullet_collision ==
    /\ MayRun("bullet_collision")
    /\ ran' = ran \cup {"bullet_collision"}
    /\ \E hits \in [alive -> 0 .. MaxHits], expired \in 0 .. bullets :
         /\ SumOver(hits, alive) + expired <= bullets
         /\ \A e \in alive : health[e] - hits[e] >= InitHealth - MaxDamage
         /\ health' = [e \in Ents |->
               IF e \in alive THEN health[e] - hits[e] ELSE health[e]]
         /\ bullets' = bullets - SumOver(hits, alive) - expired
    /\ UNCHANGED <<alive, dead, path_index, pos, gpos, player_health,
                   despawnCmds, deathEvents, hurtCount, gameOver, dt,
                   panicked>>
    /\ UNCHANGED <<asyncVars, towers, shot, spawnCmds, legVars>>

\* =====================================================================
\*                      tower.rs : target selection
\* =====================================================================

NoTarget == 0

\* the Vec3 whose coordinates are the whole numbers p of half units
Vec3(p) == [x |-> Half(p[1]), y |-> Half(p[2]), z |-> Half(p[3])]

\* spawn_turret: translation (0, 2, -2), also used as bullet_offset
TurretTranslation == Vec3(<<0, 4, -4>>)

\* Vec3 + Vec3
Add3(a, b) ==
    [x |-> FAdd(a.x, b.x), y |-> FAdd(a.y, b.y), z |-> FAdd(a.z, b.z)]

\* Vec3::dot(d, d) = d.x * d.x + d.y * d.y + d.z * d.z
Dot3(dx, dy, dz) == FAdd(FAdd(FMul(dx, dx), FMul(dy, dy)), FMul(dz, dz))

\* Vec3::distance(a, b) = (a - b).length() = sqrt(dot(a - b, a - b))
Distance(a, b) ==
    FSqrt(Dot3(FSub(a.x, b.x), FSub(a.y, b.y), FSub(a.z, b.z)))

\* GlobalTransform::translation() of a target: the enemies stay at y = 0
Translation(e) == [x |-> gpos[e].x, y |-> Zero, z |-> gpos[e].z]

\* Timer::tick of a repeating timer
TimerTick(elapsed, d) ==
    [elapsed |-> (elapsed + d) % TimerDuration,
     just_finished |-> (elapsed + d) >= TimerDuration,
     times_finished |-> (elapsed + d) \div TimerDuration]

\* the distance of every target to the muzzle, as the two closures compute
\* it: Vec3::distance(target_transform.translation(), bullet_spawn)
Keys(muzzle) == [e \in alive |-> Distance(Translation(e), muzzle)]

\* Mutant of InRange: the bound is inclusive.
InRangeInclusive(key, range) == ~FGt(key, range)

\* the filter, for a target at the distance key: key < tower.range
InRange(key, range) == FGt(range, key)

\* Iterator::min_by_key over a non-empty sequence, with the keys
\* FloatOrd(key[e]): the first of the elements with the smallest key.
RECURSIVE MinByKey(_, _)
MinByKey(seq, key) ==
    IF Len(seq) = 1 THEN seq[1]
    ELSE LET m == MinByKey(Tail(seq), key)
         IN IF FGt(key[seq[1]], key[m]) THEN m ELSE seq[1]

\* targets.iter().filter(..).min_by_key(..) for the iteration order `order`
\* and the distances `key` of the targets
Closest(order, key, range) ==
    LET cand == SelectSeq(order, LAMBDA e : InRange(key[e], range))
    IN IF cand = <<>> THEN NoTarget ELSE MinByKey(cand, key)

\* bullet_spawn = transform.translation() + tower.bullet_offset
Muzzle(t) == Add3(t.global, t.bullet_offset)

\* spawn_turret, run by a click on the base between two ticks
spawn_turret ==
    /\ ~panicked
    /\ ran = {}
    /\ Len(towers) < MaxTowers
    /\ towers' = Append(towers,
          [timer |-> 0, bullet_offset |-> TurretTranslation,
           range |-> Half(TurretRange), translation |-> TurretTranslation,
           global |-> Vec3(<<0, 0, 0>>)])
    /\ UNCHANGED <<shot, spawnCmds, bullets, ran, dt, panicked>>
    /\ UNCHANGED <<asyncVars, enemyVars, legVars>>

\* Bullets spawned by a tower whose timer has just finished:
\*   if let Some(direction) = direction { .. spawn(Bullet) .. }
SpawnCount(tick, target) ==
    IF target = NoTarget THEN 0 ELSE 1

\* tower_shooting
tower_shooting ==
    /\ MayRun("tower_shooting")
    /\ ran' = ran \cup {"tower_shooting"}
    /\ towers' = [i \in 1 .. Len(towers) |->
          [towers[i] EXCEPT !.timer = TimerTick(towers[i].timer, dt).elapsed]]
    /\ LET fired == {i \in 1 .. Len(towers) :
                        TimerTick(towers[i].timer, dt).just_finished}
       IN \E key \in {[i \in fired |-> Keys(Muzzle(towers[i]))]},
             order \in Orders(alive) :
            LET target == [i \in fired |->
                             Closest(order, key[i], towers[i].range)]
            IN /\ shot' = [i \in 1 .. MaxTowers |->
                     IF i \in fired THEN target[i] ELSE shot[i]]
               /\ spawnCmds' = [i \in 1 .. MaxTowers |->
                     IF i \in fired
                       THEN spawnCmds[i]
                              + SpawnCount(TimerTick(towers[i].timer, dt),
                                           target[i])
                       ELSE spawnCmds[i]]
    /\ UNCHANGED <<bullets, dt, panicked>>
    /\ UNCHANGED <<asyncVars, enemyVars, legVars>>

\* =====================================================================
\*                           end of a tick
\* =====================================================================

\* Mutant of Despawned: the despawn commands of hurt_player are dropped.
DespawnedByDeathOnly(cmds) == {e \in Ents : "target_death" \in cmds[e]}

\* entities removed when the queued commands are applied
Despawned(cmds) == {e \in Ents : cmds[e] # {}}

\* End of the Update schedule: the command queue is applied (despawns, the
\* bullets spawned by tower_shooting), PostUpdate
\* propagates Transform to GlobalTransform, and the next frame's delta is
\* set, to one of the lengths of `deltas`.
EndTick(deltas) ==
    /\ ~panicked
    /\ ran = Systems
    /\ alive' = alive \ Despawned(despawnCmds)
    /\ dead' = dead \cup (alive \cap Despawned(despawnCmds))
    /\ despawnCmds' = [e \in Ents |-> {}]
    /\ gpos' = pos
    /\ towers' = [i \in 1 .. Len(towers) |->
                    [towers[i] EXCEPT !.global = towers[i].translation]]
    /\ shot' = [i \in 1 .. MaxTowers |-> NoTarget]
    /\ spawnCmds' = [i \in 1 .. MaxTowers |-> 0]
    /\ bullets' = Min(MaxBullets,
                      bullets + SumOver(spawnCmds, 1 .. MaxTowers))
    /\ ran' = {}
    /\ \E d \in deltas : dt' = d
    /\ UNCHANGED <<path_index, pos, health, player_health, deathEvents,
                   hurtCount, gameOver, panicked>>
    /\ UNCHANGED <<asyncVars, legVars>>

end_tick == EndTick(DtSet)

\* the end of a tick when the frames have the lengths of UnevenDtSet
end_uneven_tick == EndTick(UnevenDtSet)

\* =====================================================================
\*                 one leg followed by move_targets alone
\* =====================================================================

LegSteps == 0 .. MaxLegStep

\* one tick of move_targets on entity 1 with a step of k half units
advance(k) ==
    /\ ~panicked
    /\ legIdx >= 0
    /\ path_index[1] = legIdx
    /\ dt' = k * SpeedDen
    /\ path_index' = [path_index EXCEPT
          ![1] = Advance(pos[1], path_index[1], Delta(dt')).path_index]
    /\ pos' = [pos EXCEPT
          ![1] = Advance(pos[1], path_index[1], Delta(dt')).pos]
    /\ travelled' = travelled + StepOf(dt')
    /\ UNCHANGED <<alive, dead, gpos, health, player_health, despawnCmds,
                   deathEvents, hurtCount, gameOver, ran, panicked, legIdx,
                   legStart>>
    /\ UNCHANGED <<asyncVars, towerVars>>

\* =====================================================================
\*                      initial states, specifications
\* =====================================================================

InitAsync ==
    /\ tasks = <<>>
    /\ nextId = 0
    /\ draws = [t \in TaskIds |-> 0]
    /\ polled = 0
    /\ drawCmds = {}
    /\ doneAtCall = {}
    /\ errorLog = 0
    /\ writer = FALSE
    /\ poisoned = FALSE
    /\ rebuilds = 0
    /\ blocking = 0
    /\ redDraws = 0
    /\ blockingResult = "idle"
    /\ panicked = FALSE

NextAsync ==
    \/ run_async_pathfinding
    \/ \E i \in 1 .. MaxTasks : async_read_lock(i)
    \/ \E i \in 1 .. MaxTasks : async_path_find(i)
    \/ poll_pathfinding_tasks_system
    \/ run_blocking_pathfinding
    \/ mesh_write_lock
    \/ mesh_write_unlock
    \/ mesh_writer_panics


\* World after Startup (spawn_enemy, player spawn) and PostStartup.
InitEnemy ==
    /\ alive = 1 .. NumEnemies
    /\ dead = {}
    /\ path_index = [e \in Ents |-> 0]
    /\ pos = [e \in Ents |-> Place(SpawnPos(e))]
    /\ gpos = pos
    /\ health = [e \in Ents |-> InitHealth]
    /\ player_health = InitPlayerHealth
    /\ despawnCmds = [e \in Ents |-> {}]
    /\ deathEvents = [e \in Ents |-> 0]
    /\ hurtCount = [e \in Ents |-> 0]
    /\ gameOver = 0

InitTower ==
    /\ towers = <<>>
    /\ bullets = 0
    /\ shot = [i \in 1 .. MaxTowers |-> NoTarget]
    /\ spawnCmds = [i \in 1 .. MaxTowers |-> 0]

InitNoLeg ==
    /\ legIdx = -1
    /\ legStart = <<0, 0>>
    /\ travelled = 0

\* ---- the game tick: enemy.rs + tower.rs
InitGame ==
    /\ InitAsync /\ InitEnemy /\ InitTower /\ InitNoLeg
    /\ ran = {}
    /\ dt \in DtSet

NextGame ==
    \/ move_targets
    \/ hurt_player
    \/ target_death
    \/ bullet_collision
    \/ tower_shooting
    \/ spawn_turret
    \/ end_tick

SpecGame == InitGame /\ [][NextGame]_vars

\* ---- the game tick with frames that are not whole periods of the timer
InitUneven ==
    /\ InitAsync /\ InitEnemy /\ InitTower /\ InitNoLeg
    /\ ran = {}
    /\ dt \in UnevenDtSet

NextUneven ==
    \/ move_targets
    \/ hurt_player
    \/ target_death
    \/ bullet_collision
    \/ tower_shooting
    \/ spawn_turret
    \/ end_uneven_tick

SpecUneven == InitUneven /\ [][NextUneven]_vars

\* ---- ground.rs alone
InitGround ==
    /\ InitAsync /\ InitEnemy /\ InitTower /\ InitNoLeg
    /\ ran = {}
    /\ dt = 0

SpecAsync == InitGround /\ [][NextAsync]_vars

\* the pool runs every spawned task, the poll system runs every tick
FairAsync ==
    /\ WF_vars(poll_pathfinding_tasks_system)
    /\ \A i \in 1 .. MaxTasks : WF_vars(async_read_lock(i))
    /\ \A i \in 1 .. MaxTasks : WF_vars(async_path_find(i))
    /\ WF_vars(mesh_write_unlock)

LiveSpecAsync == SpecAsync /\ FairAsync

\* ---- move_targets on one leg, from the starting points of LegStarts
LegOffsets ==
    {<<a, b>> : a, b \in (0 - MaxLegDist) .. MaxLegDist}

LegStarts(i) ==
    {<<waypoints[i + 1][1] + o[1], waypoints[i + 1][2] + o[2]>> :
        o \in LegOffsets}

InitAdvance ==
    /\ InitAsync /\ InitTower
    /\ ran = {}
    /\ dt = 0
    /\ alive = {1}
    /\ dead = {}
    /\ legIdx \in 0 .. (Len(waypoints) - 1)
    /\ legStart \in LegStarts(legIdx)
    /\ travelled = 0
    /\ path_index = [e \in Ents |-> IF e = 1 THEN legIdx ELSE 0]
    /\ pos = [e \in Ents |-> Place(IF e = 1 THEN legStart ELSE SpawnPos(e))]
    /\ gpos = pos
    /\ health = [e \in Ents |-> InitHealth]
    /\ player_health = InitPlayerHealth
    /\ despawnCmds = [e \in Ents |-> {}]
    /\ deathEvents = [e \in Ents |-> 0]
    /\ hurtCount = [e \in Ents |-> 0]
    /\ gameOver = 0

NextAdvance == \E k \in LegSteps : advance(k)

SpecAdvance == InitAdvance /\ [][NextAdvance]_vars

\* ---- tower_shooting on a world drawn from small sets
\* the f32 next above and next below a > 0
Succ(a) == Round(a.m + 1, a.x)
Pred(a) ==
    IF a.m = Two23 THEN [m |-> Two24 - 1, x |-> a.x - 1]
    ELSE [m |-> a.m - 1, x |-> a.x]

\* the f32 that is n = -1, 0 or 1 units in the last place away from a > 0,
\* and 0 for a = 0
Nudged(a, n) ==
    IF a.m = 0 \/ n = 0 THEN a ELSE IF n > 0 THEN Succ(a) ELSE Pred(a)

\* The targets stand on the points (x, z) of half units, x in 0 .. MaxRange
\* and z in 0 .. 1, and, for the points of the x axis, one unit in the last
\* place of x before and after the point.  Spot k is the point
\* (k \div 4, 0) moved by k % 4 - 1 units in the last place for k % 4 < 3,
\* and the point (k \div 4, 1) for k % 4 = 3.
SpotIds ==
    {k \in 0 .. (4 * MaxRange + 3) : k \div 4 > 0 \/ k % 4 \in {1, 3}}
Spot(k) ==
    IF k % 4 = 3 THEN Place(<<k \div 4, 1>>)
    ELSE [x |-> Nudged(Half(k \div 4), (k % 4) - 1), z |-> Zero]

\* translation of the turret and its bullet_offset, in half units: the
\* muzzle is at the origin, or off the plane of the targets
ShootMounts ==
    {<< <<0, 0, 0>>, <<0, 0, 0>> >>, << <<1, 0, 0>>, <<-2, 1, 0>> >>}

\* The query yields the targets in every order, so the worlds that differ by
\* a renaming of the entities are drawn once: entities 1 .. n, on spots
\* that do not decrease with the identifier.  The timer of the turret
\* finishes in the tick (dt = TimerDuration) or does not (dt = 0).
InitShoot ==
    /\ InitAsync /\ InitNoLeg
    /\ ran = {}
    /\ dt \in {0, TimerDuration}
    /\ alive \in {1 .. n : n \in 1 .. MaxTargets}
    /\ dead = {}
    /\ path_index = [e \in Ents |-> 0]
    /\ \E f \in [alive -> SpotIds] :
          /\ \A e \in alive : e + 1 \in alive => f[e] <= f[e + 1]
          /\ pos = [e \in Ents |->
                      IF e \in alive THEN Spot(f[e]) ELSE Place(SpawnPos(e))]
    /\ gpos = pos
    /\ health = [e \in Ents |-> InitHealth]
    /\ player_health = InitPlayerHealth
    /\ despawnCmds = [e \in Ents |-> {}]
    /\ deathEvents = [e \in Ents |-> 0]
    /\ hurtCount = [e \in Ents |-> 0]
    /\ gameOver = 0
    /\ \E r \in 1 .. MaxRange, mount \in ShootMounts :
         towers = <<[timer |-> 0, bullet_offset |-> Vec3(mount[2]),
                     range |-> Half(r), translation |-> Vec3(mount[1]),
                     global |-> Vec3(mount[1])]>>
    /\ shot = [i \in 1 .. MaxTowers |-> NoTarget]
    /\ spawnCmds = [i \in 1 .. MaxTowers |-> 0]
    /\ bullets = 0

NextShoot == tower_shooting

\* ---- the game tick with entities about to reach the path end and a player
\* ---- health close to zero
LastWaypoint == waypoints[Len(waypoints)]
ArrivalPoints ==
    {<<LastWaypoint[1] - k, LastWaypoint[2] - k>> :
        k \in 0 .. MaxArrivalDist}

InitHurt ==
    /\ InitAsync /\ InitTower /\ InitNoLeg
    /\ ran = {}
    /\ dt \in DtSet
    /\ alive \in (SUBSET Ents) \ {{}}
    /\ dead = {}
    /\ path_index = [e \in Ents |-> IF e \in alive THEN Len(waypoints) - 1 ELSE 0]
    /\ \E f \in [alive -> ArrivalPoints] :
          pos = [e \in Ents |->
                   Place(IF e \in alive THEN f[e] ELSE SpawnPos(e))]
    /\ gpos = pos
    /\ health = [e \in Ents |-> InitHealth]
    /\ player_health \in 1 .. MaxPlayerHealth
    /\ despawnCmds = [e \in Ents |-> {}]
    /\ deathEvents = [e \in Ents |-> 0]
    /\ hurtCount = [e \in Ents |-> 0]
    /\ gameOver = 0

NextHurt ==
    \/ move_targets
    \/ hurt_player
    \/ target_death
    \/ bullet_collision
    \/ tower_shooting
    \/ end_tick

SpecHurt == InitHurt /\ [][NextHurt]_vars

SpecShoot == InitShoot /\ [][NextShoot]_vars

\* =====================================================================
\*                              properties
\* =====================================================================

\* ---------------------------------------------------------------- C1
\* C1 (as claimed): every task whose computation has completed, with a path
\* or with None, leaves AsyncPathfindingTasks.tasks in the poll that observes
\* the completion: no task that has handed its output to a poll is still
\* in the collection.
C1_CompletedTaskRemoved ==
    \A i \in 1 .. Len(tasks) : tasks[i].st # "taken"

\* ---------------------------------------------------------------- C2
\* C2: whatever the interleaving of submits, completions and polls, at most
\* one DrawPath is spawned for any one task.
C2_IntegratedAtMostOnce ==
    \A t \in TaskIds : draws[t] <= 1

\* a task has been integrated and polls go on over another completed task
C2_Witness ==
    /\ \E t \in TaskIds : draws[t] = 1
    /\ \E i \in 1 .. Len(tasks) : tasks[i].st = "taken"

\* ---------------------------------------------------------------- C3
OneQuery == nextId = 1

\* C3: when a single query is submitted, the worker eventually completes it,
\* and if it completed with a path a poll eventually spawns exactly one
\* DrawPath for it and leaves the pending set empty.
C3_PathEventuallyDrawn ==
    /\ (OneQuery /\ tasks # <<>> /\ tasks[1].st = "running")
          ~> (~OneQuery \/ tasks = <<>> \/ tasks[1].st # "running")
    /\ (OneQuery /\ tasks # <<>> /\ tasks[1].st = "ready"
                 /\ tasks[1].out = "some")
          ~> (~OneQuery \/ (tasks = <<>> /\ draws[0] = 1))

\* the single query has been integrated and the pending set is empty again
C3_Witness ==
    OneQuery /\ tasks = <<>> /\ draws[0] = 1

\* ---------------------------------------------------------------- C4
\* C4 (as claimed): for no entity are both effects applied, the
\* TargetDeathEvent of target_death and the player-health deduction of
\* hurt_player.
C4_CausesExclusive ==
    \A e \in Ents : ~(deathEvents[e] >= 1 /\ hurtCount[e] >= 1)

\* ---------------------------------------------------------------- C5
\* C5 (as claimed): every destroyed entity whose health is <= 0 has had
\* exactly one TargetDeathEvent, and no entity ever has more than one.
C5_ExactlyOneDeathEvent ==
    \A e \in Ents :
        /\ deathEvents[e] <= 1
        /\ (e \in dead /\ health[e] <= 0 => deathEvents[e] = 1)

TargetDeathRuns == "target_death" \notin ran /\ "target_death" \in ran'
TickEnds == ran = Systems /\ ran' = {}

\* C5 (amended): no entity ever has more than one TargetDeathEvent; when
\* target_death runs, each live entity with health <= 0, however far below
\* zero, gets its one event and its despawn command, and every other entity
\* gets none; an entity with an event is gone when the tick ends.
C5_OneDeathEventWhenObserved ==
    /\ [](\A e \in Ents : deathEvents[e] <= 1)
    /\ [][TargetDeathRuns =>
            \A e \in Ents :
               IF e \in alive /\ health[e] <= 0
                 THEN deathEvents'[e] = 1 /\ "target_death" \in despawnCmds'[e]
                 ELSE deathEvents'[e] = deathEvents[e]]_vars
    /\ [][TickEnds => \A e \in Ents : deathEvents[e] = 1 => e \notin alive']_vars

\* an entity hit below zero has been destroyed with its one event
C5_Witness ==
    \E e \in dead : health[e] < 0 /\ deathEvents[e] = 1

\* ---------------------------------------------------------------- C6
RECURSIVE SumHurt(_)
SumHurt(es) ==
    IF es = {} THEN 0
    ELSE LET e == CHOOSE x \in es : TRUE IN hurtCount[e] + SumHurt(es \ {e})

\* C6: an entity whose path_index has reached len(path) takes exactly one
\* point of player health in total and is destroyed once: hurt_player
\* deducts in the tick of the arrival, the entity is gone when that tick
\* ends, and no later tick deducts again.
C6_OneDecrementAtPathEnd ==
    /\ player_health = InitPlayerHealth - SumHurt(Ents)
    /\ \A e \in Ents :
        /\ hurtCount[e] <= 1
        /\ (e \in alive /\ path_index[e] >= Len(waypoints)
              /\ "hurt_player" \in ran
              => hurtCount[e] = 1 /\ "hurt_player" \in despawnCmds[e])
        /\ (e \in alive /\ ran = {} => path_index[e] < Len(waypoints))
        /\ (e \in dead /\ path_index[e] >= Len(waypoints) => hurtCount[e] = 1)
        /\ (hurtCount[e] = 1 => path_index[e] >= Len(waypoints))

\* an entity has reached the path end, was seen by target_death too, and is
\* destroyed with one deduction
C6_Witness ==
    \E e \in dead :
        /\ path_index[e] >= Len(waypoints)
        /\ deathEvents[e] = 1
        /\ player_health = InitPlayerHealth - 1

\* ---------------------------------------------------------------- C7
\* C7: path_index starts at 0, never decreases, and never exceeds len(path).
C7_PathIndexMonotoneBounded ==
    /\ \A e \in Ents : path_index[e] = 0
    /\ [](\A e \in Ents : path_index[e] >= 0 /\ path_index[e] <= Len(waypoints))
    /\ [][\A e \in Ents : path_index'[e] >= path_index[e]]_vars

\* a live entity has passed the last waypoint
C7_Witness ==
    \E e \in alive : path_index[e] = Len(waypoints)

\* ---------------------------------------------------------------- C8
\* C8 (as claimed): an entity destroyed in a tick (a despawn command is
\* queued for it) is not the selected target of tower_shooting in that tick.
C8_DestroyedNeverTargeted ==
    \A i \in 1 .. Len(towers) :
        shot[i] # NoTarget => despawnCmds[shot[i]] = {}

\* ---------------------------------------------------------------- C9
\* the leg and the entity on the grid
LegTarget == Scaled(waypoints[legIdx + 1])
LegOrigin == Scaled(legStart)
LegDistSq == LenSq(<<LegTarget[1] - LegOrigin[1], LegTarget[2] - LegOrigin[2]>>)
RemainingSq ==
    LenSq(<<LegTarget[1] - At(pos[1])[1], LegTarget[2] - At(pos[1])[2]>>)
LegArrived == legIdx >= 0 /\ path_index[1] = legIdx + 1
Between(a, x, b) == (a <= x /\ x <= b) \/ (b <= x /\ x <= a)

\* C9 (as claimed): when the steps of the ticks sum to exactly the distance
\* of the leg, the entity is on the waypoint.
C9_LandsOnWaypoint ==
    (LegArrived /\ travelled * travelled = LegDistSq)
        => pos[1] = Waypoint(legIdx)

\* C9 (amended): the position never passes the waypoint, and when the steps
\* sum to exactly the distance of the leg, the tick that advanced path_index
\* has done only that: the entity stands short of the waypoint by the step
\* of that tick (on the waypoint only when that step is 0).
C9_StopsOneStepShort ==
    legIdx >= 0 =>
      /\ Between(LegOrigin[1], At(pos[1])[1], LegTarget[1])
      /\ Between(LegOrigin[2], At(pos[1])[2], LegTarget[2])
      /\ path_index[1] \in {legIdx, legIdx + 1}
      /\ (LegArrived /\ travelled * travelled = LegDistSq
            => RemainingSq = StepOf(dt) * StepOf(dt))

\* the steps of several ticks added up to the distance of the leg
C9_Witness ==
    /\ LegArrived
    /\ travelled * travelled = LegDistSq
    /\ StepOf(dt) > 0
    /\ StepOf(dt) < travelled

\* ---------------------------------------------------------------- C10
\* tower_shooting has run and the timer of tower i finished in this tick:
\* what is left on the timer is less than the tick added to it
FiredThisTick(i) ==
    "tower_shooting" \in ran /\ i <= Len(towers) /\ dt > towers[i].timer

\* a < b for two f32 numbers a, b > 0, read off mantissa and exponent
Less(a, b) == a.x < b.x \/ (a.x = b.x /\ a.m < b.m)

\* the muzzle of tower i is at the origin and entity e is on the x axis, on
\* the positive side: its distance to the muzzle is its x
OnAxis(i, e) ==
    /\ towers[i].global = Vec3(<<0, 0, 0>>)
    /\ towers[i].bullet_offset = Vec3(<<0, 0, 0>>)
    /\ gpos[e].z = Zero
    /\ gpos[e].x.m > 0

\* the square of the distance from entity e to the muzzle of tower i, on the
\* grid
GridDistSq(i, e) ==
    LET gx == Grid(gpos[e].x)
                - Grid(towers[i].global.x) - Grid(towers[i].bullet_offset.x)
        gy == Grid(towers[i].global.y) + Grid(towers[i].bullet_offset.y)
        gz == Grid(gpos[e].z)
                - Grid(towers[i].global.z) - Grid(towers[i].bullet_offset.z)
    IN gx * gx + gy * gy + gz * gz

\* entity e, the muzzle and the range of tower i are whole half units
OnPoints(i, e) ==
    /\ GridDistSq(i, e) % (Scale * Scale) = 0
    /\ gpos[e] = [x |-> Half(Grid(gpos[e].x) \div Scale),
                  z |-> Half(Grid(gpos[e].z) \div Scale)]
    /\ towers[i].range = Half(Grid(towers[i].range) \div Scale)

\* C10: the target a turret fires at is a live entity whose distance to the
\* muzzle, the f32 Vec3::distance, is strictly less than range, and no live
\* entity has a smaller one; a turret whose timer has finished fires
\* whenever some live entity is in range.  The same holds of the distances
\* measured without f32 arithmetic: exactly for the entities on the x axis
\* of a muzzle at the origin (the distance is x) and for the entities on
\* points of half units (the squares are whole numbers), and up to the
\* rounding of the grid for all.
C10_ClosestInRange ==
    \A i \in 1 .. Len(towers) :
       LET muzzle == Add3(towers[i].global, towers[i].bullet_offset)
           range == towers[i].range
           d == [e \in alive |-> Distance(Translation(e), muzzle)]
           g == [e \in alive |-> ISqrt(GridDistSq(i, e))]
           axis == {e \in alive : OnAxis(i, e)}
           points == {e \in alive : OnPoints(i, e)}
           r2 == Grid(range) * Grid(range)
       IN /\ shot[i] # NoTarget =>
                /\ FiredThisTick(i)
                /\ shot[i] \in alive
                /\ FGt(range, d[shot[i]])
                /\ \A e \in alive : ~FGt(d[shot[i]], d[e])
                /\ g[shot[i]] < Grid(range) + 3
                /\ \A e \in alive : g[e] + 3 >= g[shot[i]]
          /\ (FiredThisTick(i) /\ \E e \in alive : FGt(range, d[e]))
                => shot[i] # NoTarget
          /\ (FiredThisTick(i) /\ \E e \in alive : g[e] + 3 < Grid(range))
                => shot[i] # NoTarget
          /\ shot[i] \in axis =>
                /\ Less(gpos[shot[i]].x, range)
                /\ \A e \in axis : ~Less(gpos[e].x, gpos[shot[i]].x)
          /\ (FiredThisTick(i) /\ \E e \in axis : Less(gpos[e].x, range))
                => shot[i] # NoTarget
          /\ shot[i] \in points =>
                /\ GridDistSq(i, shot[i]) < r2
                /\ \A e \in points :
                      GridDistSq(i, e) >= GridDistSq(i, shot[i])
          /\ (FiredThisTick(i) /\ \E e \in points : GridDistSq(i, e) < r2)
                => shot[i] # NoTarget

\* the turret has fired at a target one unit in the last place inside its
\* range, while another target stands at the range
C10_Witness ==
    \E i \in 1 .. Len(towers) : \E e \in alive :
       /\ shot[i] # NoTarget
       /\ shot[i] # e
       /\ OnAxis(i, e)
       /\ OnAxis(i, shot[i])
       /\ gpos[e].x = towers[i].range
       /\ gpos[shot[i]].x = Pred(towers[i].range)

\* ---------------------------------------------------------------- C12
HurtPlayerRuns == "hurt_player" \notin ran /\ "hurt_player" \in ran'
Arrivals == Cardinality({e \in alive : path_index[e] >= Len(waypoints)})

\* C12: player health is never negative; when hurt_player runs, each entity
\* at the path end takes exactly 1 from it while it is positive and nothing
\* once it is 0, and nothing else changes it; the step in which it reaches
\* exactly zero gives the game-over signal, and no signal is given while it
\* stays positive.
C12_HealthSaturatesAtZero ==
    /\ [](player_health >= 0)
    /\ [][IF HurtPlayerRuns
            THEN player_health' = IF player_health >= Arrivals
                                    THEN player_health - Arrivals ELSE 0
            ELSE player_health' = player_health]_vars
    /\ [][player_health > 0 /\ player_health' = 0
            => gameOver' > gameOver]_vars
    /\ [][gameOver' > gameOver => player_health' = 0]_vars

\* two entities have arrived with the player at 1 health: the first took it
\* to zero and signalled game over, the second deducted nothing
C12_Witness ==
    /\ player_health = 0
    /\ SumHurt(Ents) = 2
    /\ gameOver = 2

\* ---------------------------------------------------------------- C13
\* a step in which a query ends with an Err of the path search
QueryFailsWithError ==
    \/ /\ Len(tasks') = Len(tasks)
       /\ \E i \in 1 .. Len(tasks) :
             tasks[i].st = "running" /\ tasks'[i].cause = "error"
    \/ /\ blocking' = blocking + 1
       /\ blockingResult' \in {"polygon_error", "string_error"}

\* C13 (as claimed): on both query paths a query that ends with an error is
\* reported (one error line per failed query), and the value an errored
\* async query hands to the poll is not None, the value that stands for
\* "no path found".
C13_ErrorDistinctFromNoPath ==
    /\ [][QueryFailsWithError => errorLog' = errorLog + 1]_vars
    /\ [](\A i \in 1 .. Len(tasks) :
             tasks[i].cause = "error" => tasks[i].out # "none")

\* ---------------------------------------------------------------- C14
\* a step in which a query fails to take the read lock of the nav mesh
ReadLockFails ==
    \/ /\ Len(tasks') = Len(tasks)
       /\ \E i \in 1 .. Len(tasks) :
             tasks[i].st = "running" /\ tasks'[i].cause = "poisoned"
    \/ /\ blocking' = blocking + 1
       /\ blockingResult' = "poisoned"

\* C14 (as claimed): on both query paths a failure to take the read lock is
\* logged in the step in which it happens and spawns no DrawPath, then or
\* later; and as long as lock failures are the only failures, no system
\* panics.
C14_LockFailureHandled ==
    /\ [][ReadLockFails => errorLog' > errorLog]_vars
    /\ [][ReadLockFails => draws' = draws /\ redDraws' = redDraws]_vars
    /\ [](\A i \in 1 .. Len(tasks) :
             tasks[i].cause = "poisoned" => draws[tasks[i].id] = 0)
    /\ []((\A i \in 1 .. Len(tasks) : tasks[i].cause # "error") => ~panicked)

\* ---------------------------------------------------------------- C15
\* C15: no path-finding task ever holds write access to the nav mesh; no
\* task holds read access while the mesh generation holds the write lock;
\* the blocking query reads only while no writer holds it; and no step of a
\* task or of a query changes the state of the lock's writer side.
C15_ReadersExcludeWriter ==
    /\ [](TaskWriters = {})
    /\ [](writer => Readers = {})
    /\ [][blocking' = blocking + 1 => ~writer]_vars
    /\ [][tasks' # tasks \/ blocking' # blocking => UNCHANGED lockVars]_vars

\* two tasks hold read access at once, after a rebuild of the mesh and a
\* blocking query
C15_Witness ==
    /\ Cardinality(Readers) >= 2
    /\ rebuilds >= 1
    /\ blocking >= 1

\* ---------------------------------------------------------------- C16
\* C16: whatever the state of the lock and of the tasks, the main thread can
\* run run_async_pathfinding (one more press being within the bound, and the
\* main thread not being in the middle of a poll) and every step of
\* poll_pathfinding_tasks_system; the submit leaves the lock
\* and the guards of the tasks as they are and only pushes a task that has
\* not started; the blocking query alone has to wait while the writer holds
\* the lock.
C16_MainTickNeverBlocks ==
    /\ []((~panicked /\ ~Polling /\ nextId < MaxTasks)
            => ENABLED run_async_pathfinding)
    /\ [](~panicked => ENABLED poll_pathfinding_tasks_system)
    /\ []((~panicked /\ writer) => ~ENABLED run_blocking_pathfinding)
    /\ [][nextId' = nextId + 1 =>
            /\ UNCHANGED lockVars
            /\ Readers' = Readers
            /\ tasks' = Append(tasks, tasks'[Len(tasks')])
            /\ tasks'[Len(tasks')].st = "running"
            /\ tasks'[Len(tasks')].guard = "none"]_vars

\* the writer holds the lock, a submitted task waits for it, another task
\* has completed, and the main thread has gone on submitting
C16_Witness ==
    /\ writer
    /\ Len(tasks) >= 2
    /\ \E i \in 1 .. Len(tasks) : tasks[i].st = "running"
    /\ \E i \in 1 .. Len(tasks) : tasks[i].st = "taken"

\* ---------------------------------------------------------------- C17
\* C17: in every state in which move_targets has yet to run in the tick,
\* every live entity has path_index < len(path), so the lookup
\* waypoints[path_index] of move_targets is in bounds and never panics.
C17_LookupInBounds ==
    /\ ~panicked
    /\ "move_targets" \notin ran =>
          \A e \in alive : path_index[e] < Len(waypoints)

\* an entity has passed the last waypoint in this tick and hurt_player has
\* queued its despawn before the next movement
C17_Witness ==
    \E e \in alive :
        /\ path_index[e] = Len(waypoints)
        /\ "move_targets" \in ran
        /\ "hurt_player" \in despawnCmds[e]

\* ---------------------------------------------------------------- C18
\* two lengths on the grid that differ by no more than the rounding of two
\* translations to the grid
Near(a, b) == a - b <= 3 /\ b - a <= 3

\* C18: a tick of move_targets with step = speed * dt does exactly one of
\* two things to the entity: when the remaining distance to the waypoint, as
\* the tick computes it, is strictly greater than step, the position moves
\* by step, straight towards the waypoint, and path_index stays; otherwise
\* path_index grows by exactly 1, however large step is, and the position
\* stays.  The distance the tick computes is the distance on the grid, up to
\* rounding.
C18_MoveOrAdvance ==
    [][legIdx >= 0 =>
        LET step == StepOf(dt')
            moved == <<At(pos'[1])[1] - At(pos[1])[1],
                       At(pos'[1])[2] - At(pos[1])[2]>>
            to == <<LegTarget[1] - At(pos[1])[1],
                    LegTarget[2] - At(pos[1])[2]>>
            left == <<LegTarget[1] - At(pos'[1])[1],
                      LegTarget[2] - At(pos'[1])[2]>>
        IN IF FGt(Remaining(pos[1], Waypoint(legIdx)), Delta(dt'))
             THEN /\ path_index'[1] = path_index[1]
                  /\ ISqrt(RemainingSq) + 3 >= step
                  /\ Near(ISqrt(LenSq(moved)), step)
                  /\ Near(ISqrt(LenSq(left)), ISqrt(RemainingSq) - step)
                  /\ RemainingSq = 0
                       \/ Near(RoundDiv(moved[1] * to[2] - moved[2] * to[1],
                                        ISqrt(RemainingSq)), 0)
                  /\ moved[1] * to[1] + moved[2] * to[2] >= 0
             ELSE /\ path_index'[1] = path_index[1] + 1
                  /\ ISqrt(RemainingSq) <= step + 3
                  /\ pos'[1] = pos[1]]_vars

\* the entity has moved towards the waypoint and then, with a step longer
\* than what was left, has advanced its path_index by one where it stood
C18_Witness ==
    /\ LegArrived
    /\ At(pos[1]) # LegOrigin
    /\ StepOf(dt) * StepOf(dt) > RemainingSq

\* ---------------------------------------------------------------- C19
TowerShootingRuns == "tower_shooting" \notin ran /\ "tower_shooting" \in ran'
TimerFinishes(i) == towers[i].timer + dt >= TimerDuration
TargetsInRange(i) ==
    {e \in alive :
        FGt(towers[i].range, Distance(Translation(e), Muzzle(towers[i])))}

\* a tower whose timer does not finish in the tick only has dt added to it
IdleUnlessFinished(i) ==
    ~TimerFinishes(i) =>
        /\ towers'[i].timer = towers[i].timer + dt
        /\ shot'[i] = shot[i]
        /\ spawnCmds'[i] = spawnCmds[i]

\* a tower whose timer finishes queues at most one bullet, and none when no
\* live entity is in range
AtMostOneBullet(i) ==
    TimerFinishes(i) =>
        /\ spawnCmds'[i] \in {spawnCmds[i], spawnCmds[i] + 1}
        /\ TargetsInRange(i) = {} =>
              spawnCmds'[i] = spawnCmds[i] /\ shot'[i] = NoTarget

\* C19 (as claimed): a tower does nothing unless its timer finishes in the
\* tick; when it does, the timer starts again with the whole interval ahead
\* of it, target or no target, at most one bullet is queued, and none when
\* no live entity is in range.
C19_TimerRestartsFromInterval ==
    [][TowerShootingRuns =>
         \A i \in 1 .. Len(towers) :
            /\ IdleUnlessFinished(i)
            /\ AtMostOneBullet(i)
            /\ TimerFinishes(i) => towers'[i].timer = 0]_vars

\* ---------------------------------------------------------------- C20
StillRunning(t) == t.st = "running"
\* the tasks of ts whose ids are still in the collection `kept`
KeptOf(ts, kept) ==
    SelectSeq(ts, LAMBDA t : \E j \in 1 .. Len(kept) : kept[j].id = t.id)
Ids(ts) == [i \in 1 .. Len(ts) |-> ts[i].id]

\* a step in which a poll has had an effect: it went on to the next task,
\* a DrawPath was queued or spawned, a completed task was taken or removed,
\* or the poll panicked
PollActs ==
    \/ polled' # polled
    \/ drawCmds' # drawCmds
    \/ draws' # draws
    \/ panicked' # panicked
    \/ \E i \in 1 .. Len(tasks) :
          /\ tasks[i].st = "ready"
          /\ \A j \in 1 .. Len(tasks') : tasks'[j] # tasks[i]

\* the step queues the DrawPath of task t, or spawns it without it having
\* been queued by an earlier step
Integrates(t) ==
    \/ t \in drawCmds' \ drawCmds
    \/ draws'[t] # draws[t] /\ t \notin drawCmds

\* what a step of the poll leaves alone: the running tasks stay, unchanged
\* and in order, the tasks kept stay in order, and a task that is not
\* complete is kept as it is and nothing is drawn for it
KeepsRunningTasks ==
    /\ SelectSeq(tasks', StillRunning) = SelectSeq(tasks, StillRunning)
    /\ Ids(KeptOf(tasks, tasks')) = Ids(tasks')
    /\ \A i \in 1 .. Len(tasks) :
          tasks[i].st # "ready" =>
             /\ \E j \in 1 .. Len(tasks') : tasks'[j] = tasks[i]
             /\ ~Integrates(tasks[i].id)
             /\ draws'[tasks[i].id] = draws[tasks[i].id]

\* C20 (as claimed): a poll leaves the running tasks in the collection,
\* unchanged and in the same order, and spawns no DrawPath for them; only
\* tasks observed as complete change the collection; and a poll integrates
\* only tasks that had completed before that poll began.
C20_IntegratesCompletedBeforeCall ==
    [][PollActs =>
         /\ KeepsRunningTasks
         /\ \A t \in TaskIds : Integrates(t) => t \in CompletedAtCall]_vars

\* C20 (amended): a poll leaves the running tasks in the collection,
\* unchanged and in the same order, and spawns no DrawPath for them; only
\* tasks observed as complete change the collection; and a poll integrates
\* only tasks that had completed with a path when the poll reached them, and
\* spawns a DrawPath only for a task it has integrated.
C20_PollKeepsRunningTasks ==
    [][PollActs =>
         /\ KeepsRunningTasks
         /\ \A t \in TaskIds :
               Integrates(t) =>
                  \E i \in 1 .. Len(tasks) :
                     /\ tasks[i].id = t
                     /\ tasks[i].st = "ready"
                     /\ tasks[i].out = "some"
         /\ \A t \in TaskIds :
               draws'[t] # draws[t] =>
                  /\ draws'[t] = draws[t] + 1
                  /\ t \in drawCmds \/ Integrates(t)]_vars

\* a poll has retained a task that is running and is still under way; a
\* task it has yet to reach has completed with a path since it began
C20_Witness ==
    /\ polled >= 1
    /\ tasks[1].st = "running"
    /\ \E i \in (polled + 1) .. Len(tasks) :
          /\ tasks[i].st = "ready"
          /\ tasks[i].out = "some"
          /\ tasks[i].id \notin doneAtCall

\* ---------------------------------------------------------------- C21
\* the task with identity t has completed with a path
CompletedWithPath(t) ==
    \E i \in 1 .. Len(tasks) : tasks[i].id = t /\ tasks[i].cause = "path"

\* C21 (as claimed): a blocking query spawns one red DrawPath in its own
\* step exactly when it ends with a path, and nothing else spawns one; a
\* blue DrawPath is spawned only for a task that completed with a path, at
\* most once, never for a task that ended with an error or a lock failure;
\* and every task that completes with a path does get its blue DrawPath.
C21_DrawPathIffSuccess ==
    /\ [][blocking' = blocking + 1 =>
            redDraws' = redDraws + (IF blockingResult' = "path" THEN 1 ELSE 0)]_vars
    /\ [][redDraws' # redDraws => blocking' = blocking + 1]_vars
    /\ [](\A t \in TaskIds : draws[t] <= 1)
    /\ [][\A t \in TaskIds :
            /\ Integrates(t) =>
                  \E i \in 1 .. Len(tasks) :
                     /\ tasks[i].id = t
                     /\ tasks[i].st = "ready"
                     /\ tasks[i].cause = "path"
            /\ draws'[t] # draws[t] => t \in drawCmds \/ Integrates(t)]_vars
    /\ [](\A i \in 1 .. Len(tasks) :
            tasks[i].cause \in {"error", "poisoned"} => draws[tasks[i].id] = 0)
    /\ \A t \in TaskIds : CompletedWithPath(t) ~> (draws[t] = 1)

\* ---------------------------------------------------------------- C22
\* C22: an entity whose despawn is requested stays in the world for the rest
\* of the tick; the end of the tick removes exactly the entities with a
\* request; a removed entity never returns, and in no later step is it
\* moved, is player health deducted for it, is its health changed, is a
\* TargetDeathEvent sent for it or a despawn requested for it.
C22_DespawnDeferredToTickEnd ==
    /\ [](alive \cap dead = {})
    /\ [][IF TickEnds
            THEN /\ alive' = {e \in alive : despawnCmds[e] = {}}
                 /\ dead' = dead \cup {e \in alive : despawnCmds[e] # {}}
            ELSE alive' = alive /\ dead' = dead]_vars
    /\ [][\A e \in dead :
            /\ pos'[e] = pos[e]
            /\ path_index'[e] = path_index[e]
            /\ health'[e] = health[e]
            /\ hurtCount'[e] = hurtCount[e]
            /\ deathEvents'[e] = deathEvents[e]
            /\ despawnCmds'[e] = {}]_vars

\* an entity was handled by both hurt_player and target_death in one tick,
\* the second of them after the first had requested its despawn; it is gone,
\* and move_targets has run in a later tick
C22_Witness ==
    \E e \in dead :
        /\ hurtCount[e] = 1
        /\ deathEvents[e] = 1
        /\ "move_targets" \in ran

====
